---- MODULE Spec2Model ----
(***************************************************************************)
(* Model of the Bible MCP server worker (src/src/index.ts, first module):  *)
(* the JSON-RPC dispatcher handleMCP, the BibleAPIClient, the two action   *)
(* handlers and the response constructors.                                 *)
(*                                                                         *)
(* JavaScript values are tagged records.  A string is a sequence of        *)
(* chunks: a chunk is either a whitespace unit (" " or "\n") or a piece    *)
(* of non-blank text, so that concatenation is \o, trim() strips blank     *)
(* chunks from both ends and a template literal is the concatenation of    *)
(* its pieces.                                                             *)
(***************************************************************************)
EXTENDS Integers, Sequences, FiniteSets, TLC

VARIABLES
  env,       \* the deployment configuration (Env)
  pc,        \* "idle", "fetch" (a handler awaits the provider) or "done"
  request,   \* the request being handled
  call,      \* the suspended tools/call: request id and handler context
  fetches,   \* the provider fetches issued for this request, in order
  answers,   \* the provider's outcomes to those fetches, in order
  handlers,  \* the handler invocations made for this request
  response,  \* the Response returned by handleMCP
  emitted,   \* how many responses were returned for this request
  flatInput,   \* the contentItems given to extractTextFromContent
  flatOutput,  \* what extractTextFromContent returned for them
  slots,       \* the requests in flight when several are handled interleaved
  sse          \* the SSE connection opened by handleSSE

vars == <<env, pc, request, call, fetches, answers, handlers, response, emitted,
          flatInput, flatOutput, slots, sse>>

(***************************************************************************)
(* JavaScript / JSON values                                                *)
(***************************************************************************)
Undef == [t |-> "undefined"]
Null == [t |-> "null"]
Num(n) == [t |-> "number", n |-> n]
Bool(b) == [t |-> "boolean", b |-> b]
Str(s) == [t |-> "string", s |-> s]
Arr(a) == [t |-> "array", a |-> a]
\* an object keeps only the members that are defined, as JSON does
Obj(r) == [t |-> "object", o |-> [k \in {f \in DOMAIN r : r[f] # Undef} |-> r[k]]]
EmptyObj == [t |-> "object", o |-> <<>>]
\* a one-chunk string literal
S(lit) == Str(<<lit>>)

IsStr(v) == v.t = "string"
IsNullish(v) == v.t \in {"undefined", "null"}

\* JavaScript ToBoolean
Truthy(v) ==
  CASE v.t = "undefined" -> FALSE
    [] v.t = "null" -> FALSE
    [] v.t = "number" -> v.n # 0
    [] v.t = "boolean" -> v.b
    [] v.t = "string" -> v.s # <<>>
    [] OTHER -> TRUE

\* a || b
OrElse(a, b) == IF Truthy(a) THEN a ELSE b

\* v.k for a non-nullish v (reading a member of a primitive gives undefined)
Get(v, k) == IF v.t = "object" /\ k \in DOMAIN v.o THEN v.o[k] ELSE Undef

IsWhite(c) == c \in {" ", "\n"}

RECURSIVE TrimStart(_)
TrimStart(s) == IF s # <<>> /\ IsWhite(Head(s)) THEN TrimStart(Tail(s)) ELSE s

RECURSIVE TrimEnd(_)
TrimEnd(s) ==
  IF s # <<>> /\ IsWhite(s[Len(s)]) THEN TrimEnd(SubSeq(s, 1, Len(s) - 1)) ELSE s

\* String.prototype.trim
Trim(s) == TrimEnd(TrimStart(s))

UpperChunk(c) ==
  CASE c = "gen" -> "GEN"
    [] c = "Gen" -> "GEN"
    [] c = "exo" -> "EXO"
    [] OTHER -> c

\* String.prototype.toUpperCase
ToUpperCase(s) == [i \in 1..Len(s) |-> UpperChunk(s[i])]

\* String(v), as a template literal `${v}` computes it
TemplateStr(v) ==
  CASE v.t = "string" -> v.s
    [] v.t = "number" -> <<ToString(v.n)>>
    [] v.t = "boolean" -> IF v.b THEN <<"true">> ELSE <<"false">>
    [] v.t = "null" -> <<"null">>
    [] v.t = "undefined" -> <<"undefined">>
    [] v.t = "array" -> <<"[array]">>
    [] OTHER -> <<"[object Object]">>

\* s contains sub as a contiguous substring
Contains(s, sub) ==
  \E i \in 0..(Len(s) - Len(sub)) : SubSeq(s, i + 1, i + Len(sub)) = sub

(***************************************************************************)
(* Outcomes of a piece of code: a value, or a thrown Error with a message  *)
(***************************************************************************)
Ok(v) == [threw |-> FALSE, value |-> v]
Threw(msg) == [threw |-> TRUE, msg |-> msg]

(***************************************************************************)
(* BibleAPIClient                                                          *)
(***************************************************************************)
DEFAULT_BIBLE_ID == S("de4e12af7f28f599-02")
DEFAULT_BASE_URL == S("https://api.scripture.api.bible/v1")

\* new BibleAPIClient(env)
NewBibleAPIClient(e) ==
  LET apiKey == OrElse(Get(e, "BIBLE_API_KEY"), Str(<<>>))
      bibleId == OrElse(Get(e, "BIBLE_ID"), DEFAULT_BIBLE_ID)
      baseUrl == OrElse(Get(e, "BASE_URL"), DEFAULT_BASE_URL)
  IN IF ~Truthy(apiKey)
       THEN Threw(<<"BIBLE_API_KEY environment variable is required">>)
       ELSE Ok([apiKey |-> apiKey, bibleId |-> bibleId, baseUrl |-> baseUrl])

\* {...defaultParams, ...params}
Spread(d, p) ==
  [k \in (DOMAIN d) \cup (DOMAIN p) |-> IF k \in DOMAIN p THEN p[k] ELSE d[k]]

\* the fetch issued by makeRequest(endpoint, params)
MakeRequestFetch(client, endpoint, params) ==
  [url |-> client.baseUrl.s \o <<"/">> \o endpoint,
   params |-> params,
   apiKey |-> client.apiKey]

\* makeRequest without its response.ok check: the error body is decoded
MakeRequestResultNoStatusCheck(out) ==
  CASE out.k = "reject" -> Threw(<<"fetch failed">>)
    [] out.k = "http" -> Ok(EmptyObj)
    [] out.k = "badjson" -> Threw(<<"Unexpected token < in JSON">>)
    [] OTHER -> Ok(out.body)

\* makeRequest after the fetch has settled with provider outcome out
MakeRequestResult(out) ==
  CASE out.k = "reject" -> Threw(<<"fetch failed">>)
    [] out.k = "http" ->
         Threw(<<"Bible API request failed: ", ToString(out.status), " ", out.statusText>>)
    [] out.k = "badjson" -> Threw(<<"Unexpected token < in JSON">>)
    [] OTHER -> Ok(out.body)

NoParams == <<>>

GetBooksFetch(client) ==
  MakeRequestFetch(client, <<"bibles/">> \o client.bibleId.s \o <<"/books">>, NoParams)

GetChaptersFetch(client, bookId) ==
  MakeRequestFetch(client,
    <<"bibles/">> \o client.bibleId.s \o <<"/books/">> \o bookId \o <<"/chapters">>,
    NoParams)

GetVerseFetch(client, verseId, params) ==
  MakeRequestFetch(client,
    <<"bibles/">> \o client.bibleId.s \o <<"/verses/">> \o TemplateStr(verseId),
    Spread([content_type |-> <<"text">>,
            include_notes |-> <<"false">>,
            include_titles |-> <<"false">>,
            include_chapter_numbers |-> <<"false">>,
            include_verse_numbers |-> <<"false">>,
            include_verse_spans |-> <<"false">>,
            use_org_id |-> <<"false">>], params))

GetPassageFetch(client, passageId, params) ==
  MakeRequestFetch(client,
    <<"bibles/">> \o client.bibleId.s \o <<"/passages/">> \o TemplateStr(passageId),
    Spread([content_type |-> <<"json">>,
            include_notes |-> <<"false">>,
            include_titles |-> <<"false">>,
            include_chapter_numbers |-> <<"false">>,
            include_verse_numbers |-> <<"false">>,
            include_verse_spans |-> <<"false">>,
            use_org_id |-> <<"false">>], params))

SearchVersesFetch(client, query, limit) ==
  MakeRequestFetch(client,
    <<"bibles/">> \o client.bibleId.s \o <<"/search">>,
    [query |-> TemplateStr(query),
     limit |-> <<ToString(limit)>>,
     sort |-> <<"relevance">>,
     fuzziness |-> <<"AUTO">>])

(***************************************************************************)
(* Response constructors                                                   *)
(***************************************************************************)
\* JSON.stringify of an object literal: members whose value is undefined
\* are left out
JsonStringify(r) == [k \in {f \in DOMAIN r : r[f] # Undef} |-> r[k]]

HTTP_OK == 200

CreateSuccessResponse(id, result) ==
  [status |-> HTTP_OK,
   body |-> JsonStringify([jsonrpc |-> S("2.0"), id |-> id, result |-> result])]

CreateErrorResponse(id, code, message) ==
  [status |-> HTTP_OK,
   body |-> JsonStringify([jsonrpc |-> S("2.0"), id |-> id,
                           error |-> [code |-> code, message |-> message]])]

ToolResult(text) == [content |-> <<[type |-> "text", text |-> text]>>]

ToolError(text, isError) ==
  [content |-> <<[type |-> "text", text |-> text]>>, isError |-> isError]

(***************************************************************************)
(* Nested-content flattener and text truncation                            *)
(***************************************************************************)
TypeError(what) == Threw(<<"TypeError: ", what>>)

\* Array.prototype.join("") of the element strings
RECURSIVE Join(_)
Join(parts) == IF parts = <<>> THEN <<>> ELSE Head(parts) \o Join(Tail(parts))

RECURSIVE ExtractText(_)
RECURSIVE MapExtractText(_)

\* extractText(item), the inner function of extractTextFromContent
ExtractText(item) ==
  IF item.t \in {"object", "array"}
    THEN IF Get(item, "type") = S("text")
           THEN Ok(TemplateStr(OrElse(Get(item, "text"), Str(<<>>))))
           ELSE IF Truthy(Get(item, "items"))
                  THEN IF Get(item, "items").t = "array"
                         THEN MapExtractText(Get(item, "items").a)
                         ELSE TypeError("item.items.map is not a function")
                  ELSE Ok(<<>>)
    ELSE Ok(<<>>)

\* a map that visits the items from last to first
MapExtractTextReversed(items) ==
  IF items = <<>>
    THEN Ok(<<>>)
    ELSE LET h == ExtractText(Head(items))
             r == MapExtractText(Tail(items))
         IN IF h.threw THEN h
            ELSE IF r.threw THEN r
            ELSE Ok(r.value \o h.value)

\* items.map(extractText).join("")
MapExtractText(items) ==
  IF items = <<>>
    THEN Ok(<<>>)
    ELSE LET h == ExtractText(Head(items))
             r == MapExtractText(Tail(items))
         IN IF h.threw THEN h
            ELSE IF r.threw THEN r
            ELSE Ok(h.value \o r.value)

\* extractTextFromContent(contentItems)
ExtractTextFromContent(contentItems) ==
  CASE contentItems.t = "array" ->
         LET r == MapExtractText(contentItems.a)
         IN IF r.threw THEN r ELSE Ok(Trim(r.value))
    [] contentItems.t = "string" -> Ok(<<>>)
    [] OTHER -> TypeError("contentItems is not iterable")

MAX_VERSE_LENGTH_CONCISE == 100

\* a truncation that cuts at maxLen but appends no ellipsis
TruncateTextNoEllipsis(text, maxLen) ==
  IF Len(text) <= maxLen THEN text ELSE Trim(SubSeq(text, 1, maxLen))

\* truncateText(text, maxLen) for a string text
TruncateText(text, maxLen) ==
  IF Len(text) <= maxLen THEN text ELSE Trim(SubSeq(text, 1, maxLen)) \o <<"...">>

(***************************************************************************)
(* Action handlers.  A handler runs until it returns a tool result or      *)
(* until it awaits a provider fetch; it is resumed with the provider's     *)
(* outcome.                                                                *)
(***************************************************************************)
Done(result) == [done |-> TRUE, result |-> result]
Await(fetch, ctx) == [done |-> FALSE, fetch |-> fetch, ctx |-> ctx]

\* a catch clause that drops the message of the error
HandlerCatchNoMessage(msg) == Done(ToolError(<<"Error">>, TRUE))

\* the catch clause of both handlers
HandlerCatch(msg) == Done(ToolError(<<"Error: ">> \o msg, TRUE))

ResponseFormat(args) == OrElse(Get(args, "response_format"), S("concise"))
IsDetailed(args) == ResponseFormat(args) = S("detailed")

BoolStr(b) == IF b THEN <<"true">> ELSE <<"false">>

Min(a, b) == IF a <= b THEN a ELSE b
Max(a, b) == IF a >= b THEN a ELSE b

DEFAULT_LIMIT == 10
MIN_LIMIT == 1
MAX_LIMIT == 200

\* a clamp that forgets the lower bound: Math.min(args.limit ?? 10, 200)
ClampLimitNoFloor(limit) ==
  Min(IF IsNullish(limit) THEN DEFAULT_LIMIT ELSE limit.n, MAX_LIMIT)

\* Math.min(Math.max(args.limit ?? 10, 1), 200)
ClampLimit(limit) ==
  Min(Max(IF IsNullish(limit) THEN DEFAULT_LIMIT ELSE limit.n, MIN_LIMIT), MAX_LIMIT)

\* the fetch parameters of the passage and chapter actions
\* parameters that ask for structured content whatever the fidelity
PassageParamsAlwaysJson(isDetailed) ==
  [include_verse_numbers |-> BoolStr(isDetailed), content_type |-> <<"json">>]

PassageParams(isDetailed) ==
  [include_verse_numbers |-> BoolStr(isDetailed),
   content_type |-> IF isDetailed THEN <<"json">> ELSE <<"text">>]

\* handleBibleContent up to its first await
HandleBibleContentStart(args, client) ==
  LET action == Get(args, "action")
      isDetailed == IsDetailed(args)
      ctx(stage) == [tool |-> "bible_content", stage |-> stage, args |-> args,
                     client |-> client, isDetailed |-> isDetailed]
  IN CASE action = S("search") ->
            IF ~Truthy(Get(args, "query"))
              THEN Done(ToolError(<<"search action requires query">>, TRUE))
              ELSE Await(SearchVersesFetch(client, Get(args, "query"),
                                           ClampLimit(Get(args, "limit"))),
                         ctx("search"))
       [] action = S("verse") ->
            IF ~Truthy(Get(args, "verse_id"))
              THEN Done(ToolError(<<"verse action requires verse_id">>, TRUE))
              ELSE Await(GetVerseFetch(client, Get(args, "verse_id"),
                                       [include_verse_numbers |-> BoolStr(isDetailed)]),
                         ctx("verse"))
       [] action = S("passage") ->
            IF ~Truthy(Get(args, "passage_id"))
              THEN Done(ToolError(<<"passage action requires passage_id">>, TRUE))
              ELSE Await(GetPassageFetch(client, Get(args, "passage_id"),
                                         PassageParams(isDetailed)),
                         ctx("passage"))
       [] action = S("chapter") ->
            IF ~Truthy(Get(args, "book_id")) \/ IsNullish(Get(args, "chapter"))
              THEN Done(ToolError(<<"chapter action requires book_id and chapter">>, TRUE))
              ELSE IF ~IsStr(Get(args, "book_id"))
                     THEN HandlerCatch(<<"TypeError: ", "args.book_id.toUpperCase is not a function">>)
                     ELSE LET bookId == ToUpperCase(Get(args, "book_id").s)
                          IN Await(GetChaptersFetch(client, bookId),
                                   [tool |-> "bible_content", stage |-> "chapters",
                                    args |-> args, client |-> client,
                                    isDetailed |-> isDetailed, bookId |-> bookId])
       [] OTHER ->
            Done(ToolError(<<"Unknown action: ">> \o TemplateStr(action)
                           \o <<". Use ", "search", ", ", "verse", ", ", "passage",
                                ", or ", "chapter", ".">>, TRUE))

\* one iteration of the search rendering loop, for verses[i]
RenderVerse(verse, isDetailed) ==
  IF IsNullish(verse)
    THEN TypeError("Cannot read properties of null (reading 'text')")
    ELSE LET text == Get(verse, "text")
         IN IF ~isDetailed /\ ~IsStr(text)
              THEN TypeError("Cannot read properties of undefined (reading 'length')")
              ELSE Ok(<<"**">> \o TemplateStr(Get(verse, "reference")) \o <<"**", "\n">>
                      \o (IF isDetailed THEN TemplateStr(text)
                          ELSE TruncateText(text.s, MAX_VERSE_LENGTH_CONCISE))
                      \o <<"\n", "\n">>)

\* a rendering loop that prepends each result instead of appending it
RECURSIVE RenderVersesPrepending(_, _, _)
RenderVersesPrepending(verses, maxResults, isDetailed) ==
  IF maxResults = 0
    THEN Ok(<<>>)
    ELSE LET r == RenderVersesPrepending(verses, maxResults - 1, isDetailed)
             v == RenderVerse(verses[maxResults], isDetailed)
         IN IF r.threw THEN r
            ELSE IF v.threw THEN v
            ELSE Ok(v.value \o r.value)

\* for (let i = 0; i < maxResults; i++) response += ...
RECURSIVE RenderVerses(_, _, _)
RenderVerses(verses, maxResults, isDetailed) ==
  IF maxResults = 0
    THEN Ok(<<>>)
    ELSE LET r == RenderVerses(verses, maxResults - 1, isDetailed)
             v == RenderVerse(verses[maxResults], isDetailed)
         IN IF r.threw THEN r
            ELSE IF v.threw THEN v
            ELSE Ok(r.value \o v.value)

CONCISE_MAX_RESULTS == 5

\* the search arm after client.searchVerses has returned result
SearchResume(ctx, result) ==
  LET query == Get(ctx.args, "query")
      data == Get(result, "data")
      verses == IF IsNullish(data) THEN Undef ELSE Get(data, "verses")
  IN IF IsNullish(result)
       THEN HandlerCatch(<<"TypeError: ", "Cannot read properties of null (reading 'data')">>)
       ELSE IF ~Truthy(verses)
         THEN Done(ToolResult(<<"No verses found for query: '">> \o TemplateStr(query) \o <<"'">>))
         ELSE IF verses.t # "array"
           THEN Done(ToolResult(Trim(
                  <<"Found ">> \o TemplateStr(Get(data, "total")) \o <<" verses for '">>
                  \o TemplateStr(query)
                  \o (IF ctx.isDetailed THEN <<"' (showing ", "undefined", "):", "\n", "\n">>
                      ELSE <<"' (top ", "NaN", "):", "\n", "\n">>))))
           ELSE LET n == Len(verses.a)
                    maxResults == IF ctx.isDetailed THEN n ELSE Min(CONCISE_MAX_RESULTS, n)
                    head == <<"Found ">> \o TemplateStr(Get(data, "total"))
                            \o <<" verses for '">> \o TemplateStr(query)
                            \o (IF ctx.isDetailed
                                  THEN <<"' (showing ", ToString(n), "):", "\n", "\n">>
                                  ELSE <<"' (top ", ToString(maxResults), "):", "\n", "\n">>)
                    body == RenderVerses(verses.a, maxResults, ctx.isDetailed)
                IN IF body.threw THEN HandlerCatch(body.msg)
                   ELSE Done(ToolResult(Trim(head \o body.value)))

\* the verse arm after client.getVerse has returned result
VerseResume(ctx, result) ==
  LET data == Get(result, "data")
  IN IF IsNullish(result)
       THEN HandlerCatch(<<"TypeError: ", "Cannot read properties of null (reading 'data')">>)
       ELSE IF ~Truthy(data)
         THEN Done(ToolResult(<<"Verse not found: ">> \o TemplateStr(Get(ctx.args, "verse_id"))))
         ELSE IF ~IsStr(Get(data, "content"))
           THEN HandlerCatch(<<"TypeError: ", "verseData.content.trim is not a function">>)
           ELSE Done(ToolResult(<<"**">> \o TemplateStr(Get(data, "reference"))
                                \o <<"**", "\n">> \o Trim(Get(data, "content").s)))

\* the passage arm after client.getPassage has returned result
PassageResume(ctx, result) ==
  LET data == Get(result, "data")
      content == Get(data, "content")
      flat == ExtractTextFromContent(OrElse(content, Arr(<<>>)))
      heading == <<"**">> \o TemplateStr(Get(data, "reference")) \o <<"**", "\n">>
  IN IF IsNullish(result)
       THEN HandlerCatch(<<"TypeError: ", "Cannot read properties of null (reading 'data')">>)
       ELSE IF ~Truthy(data)
         THEN Done(ToolResult(<<"Passage not found: ">>
                              \o TemplateStr(Get(ctx.args, "passage_id"))))
         ELSE IF ~ctx.isDetailed
           THEN IF ~IsStr(content)
                  THEN HandlerCatch(<<"TypeError: ", "passageData.content.trim is not a function">>)
                  ELSE Done(ToolResult(heading \o Trim(content.s)))
           ELSE IF flat.threw THEN HandlerCatch(flat.msg)
                ELSE Done(ToolResult(heading \o flat.value))

\* the linear scan of the chapter list: the first chapter whose number is
\* the string form of the requested chapter, or null
\* a lookup that takes the first chapter of the list whatever its number
FindChapterFirst(chapters, wanted) ==
  IF chapters = <<>> THEN Ok(Null)
  ELSE IF IsNullish(Head(chapters))
    THEN TypeError("Cannot read properties of null (reading 'number')")
    ELSE Ok(Head(chapters))

RECURSIVE FindChapter(_, _)
FindChapter(chapters, wanted) ==
  IF chapters = <<>> THEN Ok(Null)
  ELSE IF IsNullish(Head(chapters))
    THEN TypeError("Cannot read properties of null (reading 'number')")
    ELSE IF Get(Head(chapters), "number") = Str(wanted)
      THEN Ok(Head(chapters))
      ELSE FindChapter(Tail(chapters), wanted)

\* the chapter arm after client.getChapters has returned chaptersResult
ChaptersResume(ctx, chaptersResult) ==
  LET chapter == Get(ctx.args, "chapter")
      list == OrElse(Get(chaptersResult, "data"), Arr(<<>>))
      found == FindChapter(list.a, TemplateStr(chapter))
  IN IF IsNullish(chaptersResult)
       THEN HandlerCatch(<<"TypeError: ", "Cannot read properties of null (reading 'data')">>)
       ELSE IF list.t # "array"
         THEN HandlerCatch(<<"TypeError: ", "chaptersResult.data is not iterable">>)
         ELSE IF found.threw THEN HandlerCatch(found.msg)
         ELSE IF ~Truthy(found.value)
           THEN Done(ToolResult(<<"Chapter ">> \o TemplateStr(chapter)
                                \o <<" not found in book ">> \o ctx.bookId))
           ELSE Await(GetPassageFetch(ctx.client, Get(found.value, "id"),
                                      PassageParams(ctx.isDetailed)),
                      [ctx EXCEPT !.stage = "chapterContent"])

\* the chapter arm after the chapter-content fetch has returned result
ChapterContentResume(ctx, result) ==
  LET data == Get(result, "data")
      content == Get(data, "content")
      contentItems == OrElse(content, Arr(<<>>))
      flat == ExtractTextFromContent(
                IF contentItems.t = "array" THEN contentItems ELSE Arr(<<contentItems>>))
      heading == <<"**">> \o TemplateStr(Get(data, "reference")) \o <<"**", "\n">>
  IN IF IsNullish(result)
       THEN HandlerCatch(<<"TypeError: ", "Cannot read properties of null (reading 'data')">>)
       ELSE IF ~Truthy(data)
         THEN Done(ToolResult(<<"Chapter content not found: ">> \o ctx.bookId \o <<" ">>
                              \o TemplateStr(Get(ctx.args, "chapter"))))
         ELSE IF ~ctx.isDetailed
           THEN Done(ToolResult(heading \o (IF IsStr(content) THEN Trim(content.s) ELSE <<>>)))
           ELSE IF flat.threw THEN HandlerCatch(flat.msg)
                ELSE Done(ToolResult(heading \o flat.value))

\* a handler that issues the chapter-list fetch again when it has failed
HandleBibleContentResumeRetrying(ctx, out) ==
  LET r == MakeRequestResult(out)
  IN IF r.threw
       THEN IF ctx.stage = "chapters"
              THEN Await(GetChaptersFetch(ctx.client, ctx.bookId), ctx)
              ELSE HandlerCatch(r.msg)
     ELSE CASE ctx.stage = "search" -> SearchResume(ctx, r.value)
            [] ctx.stage = "verse" -> VerseResume(ctx, r.value)
            [] ctx.stage = "passage" -> PassageResume(ctx, r.value)
            [] ctx.stage = "chapters" -> ChaptersResume(ctx, r.value)
            [] OTHER -> ChapterContentResume(ctx, r.value)

\* handleBibleContent resumed with the outcome of the awaited fetch
HandleBibleContentResume(ctx, out) ==
  LET r == MakeRequestResult(out)
  IN IF r.threw THEN HandlerCatch(r.msg)
     ELSE CASE ctx.stage = "search" -> SearchResume(ctx, r.value)
            [] ctx.stage = "verse" -> VerseResume(ctx, r.value)
            [] ctx.stage = "passage" -> PassageResume(ctx, r.value)
            [] ctx.stage = "chapters" -> ChaptersResume(ctx, r.value)
            [] OTHER -> ChapterContentResume(ctx, r.value)

\* handleBibleReference up to its first await
HandleBibleReferenceStart(args, client) ==
  LET action == Get(args, "action")
      isDetailed == IsDetailed(args)
  IN CASE action = S("list_books") ->
            Await(GetBooksFetch(client),
                  [tool |-> "bible_reference", stage |-> "list_books", args |-> args,
                   client |-> client, isDetailed |-> isDetailed])
       [] action = S("list_chapters") ->
            IF ~Truthy(Get(args, "book_id"))
              THEN Done(ToolError(<<"list_chapters action requires book_id">>, TRUE))
              ELSE IF ~IsStr(Get(args, "book_id"))
                     THEN HandlerCatch(<<"TypeError: ", "args.book_id.toUpperCase is not a function">>)
                     ELSE LET bookId == ToUpperCase(Get(args, "book_id").s)
                          IN Await(GetChaptersFetch(client, bookId),
                                   [tool |-> "bible_reference", stage |-> "list_chapters",
                                    args |-> args, client |-> client,
                                    isDetailed |-> isDetailed, bookId |-> bookId])
       [] OTHER ->
            Done(ToolError(<<"Unknown action: ">> \o TemplateStr(action)
                           \o <<". Use ", "list_books", " or ", "list_chapters", ".">>, TRUE))

\* the list_books rendering loop (the bullet character is written "*")
RECURSIVE RenderBooks(_, _)
RenderBooks(books, isDetailed) ==
  IF books = <<>>
    THEN Ok(<<>>)
    ELSE LET book == Head(books)
             r == RenderBooks(Tail(books), isDetailed)
             line == <<"* **">> \o TemplateStr(Get(book, "name")) \o <<"** (">>
                     \o TemplateStr(Get(book, "abbreviation"))
                     \o (IF isDetailed
                           THEN <<") - ID: ">> \o TemplateStr(Get(book, "id")) \o <<"\n">>
                           ELSE <<")", "\n">>)
         IN IF IsNullish(book)
              THEN TypeError("Cannot read properties of null (reading 'name')")
              ELSE IF r.threw THEN r ELSE Ok(line \o r.value)

\* the list_books arm after client.getBooks has returned result
ListBooksResume(ctx, result) ==
  LET data == Get(result, "data")
      body == RenderBooks(data.a, ctx.isDetailed)
  IN IF IsNullish(result)
       THEN HandlerCatch(<<"TypeError: ", "Cannot read properties of null (reading 'data')">>)
       ELSE IF ~Truthy(data)
         THEN Done(ToolResult(<<"No books found">>))
         ELSE IF data.t # "array"
           THEN HandlerCatch(<<"TypeError: ", "books is not iterable">>)
           ELSE IF body.threw THEN HandlerCatch(body.msg)
                ELSE Done(ToolResult(Trim(<<"**Bible Books:**", "\n", "\n">> \o body.value)))

INTRO == S("intro")

\* a rendering loop that has no test for the intro marker
RECURSIVE RenderChaptersWithIntro(_, _)
RenderChaptersWithIntro(chapters, isDetailed) ==
  IF chapters = <<>>
    THEN Ok(<<>>)
    ELSE LET chapter == Head(chapters)
             r == RenderChaptersWithIntro(Tail(chapters), isDetailed)
             line == <<"* Chapter ">> \o TemplateStr(Get(chapter, "number"))
                     \o (IF isDetailed
                           THEN <<" - ">> \o TemplateStr(Get(chapter, "reference"))
                                \o <<"\n">>
                           ELSE <<"\n">>)
         IN IF IsNullish(chapter)
              THEN TypeError("Cannot read properties of null (reading 'number')")
              ELSE IF r.threw THEN r ELSE Ok(line \o r.value)

\* the list_chapters rendering loop
RECURSIVE RenderChapters(_, _)
RenderChapters(chapters, isDetailed) ==
  IF chapters = <<>>
    THEN Ok(<<>>)
    ELSE LET chapter == Head(chapters)
             r == RenderChapters(Tail(chapters), isDetailed)
             line == IF Get(chapter, "number") # INTRO
                       THEN <<"* Chapter ">> \o TemplateStr(Get(chapter, "number"))
                            \o (IF isDetailed
                                  THEN <<" - ">> \o TemplateStr(Get(chapter, "reference"))
                                       \o <<"\n">>
                                  ELSE <<"\n">>)
                       ELSE <<>>
         IN IF IsNullish(chapter)
              THEN TypeError("Cannot read properties of null (reading 'number')")
              ELSE IF r.threw THEN r ELSE Ok(line \o r.value)

\* the list_chapters arm after client.getChapters has returned result
ListChaptersResume(ctx, result) ==
  LET data == Get(result, "data")
      body == RenderChapters(data.a, ctx.isDetailed)
  IN IF IsNullish(result)
       THEN HandlerCatch(<<"TypeError: ", "Cannot read properties of null (reading 'data')">>)
       ELSE IF ~Truthy(data)
         THEN Done(ToolResult(<<"No chapters found for book: ">> \o ctx.bookId))
         ELSE IF data.t # "array"
           THEN HandlerCatch(<<"TypeError: ", "chapters is not iterable">>)
           ELSE IF body.threw THEN HandlerCatch(body.msg)
                ELSE Done(ToolResult(Trim(<<"**Chapters in ">> \o ctx.bookId
                                          \o <<":**", "\n", "\n">> \o body.value)))

\* handleBibleReference resumed with the outcome of the awaited fetch
HandleBibleReferenceResume(ctx, out) ==
  LET r == MakeRequestResult(out)
  IN IF r.threw THEN HandlerCatch(r.msg)
     ELSE CASE ctx.stage = "list_books" -> ListBooksResume(ctx, r.value)
            [] OTHER -> ListChaptersResume(ctx, r.value)

(***************************************************************************)
(* Tool schema registry (the tools/list result)                            *)
(***************************************************************************)
FormatEnum == <<"concise", "detailed">>

\* a bible_reference enum that leaves out list_chapters
ReferenceActionEnumShort == <<"list_books">>

ReferenceActionEnum == <<"list_books", "list_chapters">>
ContentActionEnum == <<"search", "verse", "passage", "chapter">>

\* the description of bible_content; the action names, the argument names
\* and the punctuation around them are chunks of their own
ContentDescription ==
  <<"Read and search Bible verses. Actions: ",
    "search", " - Find verses by text ", "(requires ", "query", ")", "; ",
    "verse", " - Single verse e.g. GEN.1.1 ", "(requires ", "verse_id", ")", "; ",
    "passage", " - Verse range e.g. GEN.1.1-GEN.1.5 ", "(requires ", "passage_id", ")", "; ",
    "chapter", " - Full chapter ", "(requires ", "book_id", ", ", "chapter", ")",
    ". Use concise (default) for summaries; use detailed for verse numbers and full context.">>
\* the description of bible_reference
ReferenceDescription ==
  <<"Navigate Bible structure. Actions: ",
    "list_books", " - All books with names and abbreviations", "; ",
    "list_chapters", " - Chapters for a book ", "(requires ", "book_id", ")",
    ". Use concise for quick lookups; use detailed when you need book IDs for follow-up tool calls.">>

ToolRegistry ==
  [tools |-> <<
     [name |-> "bible_content",
      title |-> "Bible Content",
      description |-> ContentDescription,
      inputSchema |->
        [type |-> "object",
         properties |->
           [action |-> [type |-> "string",
                        enum |-> ContentActionEnum],
            query |-> [type |-> "string"],
            verse_id |-> [type |-> "string"],
            passage_id |-> [type |-> "string"],
            book_id |-> [type |-> "string"],
            chapter |-> [type |-> "number"],
            limit |-> [type |-> "number", default |-> DEFAULT_LIMIT],
            response_format |-> [type |-> "string", enum |-> FormatEnum,
                                 default |-> "concise"]],
         required |-> <<"action">>]],
     [name |-> "bible_reference",
      title |-> "Bible Reference",
      description |-> ReferenceDescription,
      inputSchema |->
        [type |-> "object",
         properties |->
           [action |-> [type |-> "string",
                        enum |-> ReferenceActionEnum],
            book_id |-> [type |-> "string"],
            response_format |-> [type |-> "string", enum |-> FormatEnum,
                                 default |-> "concise"]],
         required |-> <<"action">>]]
   >>]

InitializeResult ==
  [protocolVersion |-> "2024-11-05",
   capabilities |-> [tools |-> <<>>],
   serverInfo |-> [name |-> "bible-server", version |-> "1.0.0"]]

(***************************************************************************)
(* Protocol dispatcher                                                     *)
(***************************************************************************)
PARSE_ERROR == -32700
INVALID_REQUEST == -32600
METHOD_NOT_FOUND == -32601
INVALID_PARAMS == -32602
INTERNAL_ERROR == -32603

\* the dispatcher has answered
Respond(resp, invoked) == [done |-> TRUE, response |-> resp, invoked |-> invoked]

\* the dispatcher is suspended in a handler that awaits a fetch
Suspend(id, h, invoked) ==
  [done |-> FALSE, fetch |-> h.fetch, call |-> [id |-> id, ctx |-> h.ctx],
   invoked |-> invoked]

\* an outer catch that reports the failure as an invalid request
OuterCatchInvalidRequest(msg) ==
  Respond(CreateErrorResponse(Null, INVALID_REQUEST, <<"Parse error: ">> \o msg), <<>>)

\* the outer catch of handleMCP
OuterCatch(msg) ==
  Respond(CreateErrorResponse(Null, PARSE_ERROR, <<"Parse error: ">> \o msg), <<>>)

\* the tools/call arm of handleMCP, up to the first await of the handler
ToolsCall(body, client) ==
  LET id == Get(body, "id")
      params == Get(body, "params")
      name == Get(params, "name")
      toolArgs == OrElse(Get(params, "arguments"), EmptyObj)
      invoked == <<[tool |-> name.s, args |-> toolArgs]>>
      h == IF name = S("bible_content")
             THEN HandleBibleContentStart(toolArgs, client)
             ELSE HandleBibleReferenceStart(toolArgs, client)
  IN IF ~Truthy(params) \/ ~IsStr(name) \/ Trim(name.s) = <<>>
       THEN Respond(CreateErrorResponse(id, INVALID_PARAMS,
                                        <<"Invalid params: missing tool name">>), <<>>)
       ELSE IF name # S("bible_content") /\ name # S("bible_reference")
         THEN Respond(CreateErrorResponse(id, METHOD_NOT_FOUND,
                                          <<"Unknown tool: ">> \o name.s), <<>>)
         ELSE IF h.done
           THEN Respond(CreateSuccessResponse(id, h.result), invoked)
           ELSE Suspend(id, h, invoked)

\* handleMCP from the decoding of the request to its response or to the
\* first await of a handler.  The worker is an ES module, hence strict
\* code: setting a member on a primitive body throws a TypeError.
HandleMCP(req, e) ==
  LET body == req.body
      id == Get(body, "id")
      jsonrpc == Get(body, "jsonrpc")
      method == Get(body, "method")
      client == NewBibleAPIClient(e)
  IN IF req.json = "invalid"
       THEN OuterCatch(<<"Unexpected token in JSON">>)
     ELSE IF ~Truthy(body)
       THEN Respond(CreateErrorResponse(Null, PARSE_ERROR,
                                        <<"Parse error: empty request body">>), <<>>)
     ELSE IF Truthy(jsonrpc) /\ jsonrpc # S("2.0")
       THEN Respond(CreateErrorResponse(id, INVALID_REQUEST,
                                        <<"Invalid Request: invalid jsonrpc version">>), <<>>)
     ELSE IF ~Truthy(jsonrpc) /\ body.t \notin {"object", "array"}
       THEN OuterCatch(<<"TypeError: ", "Cannot create property 'jsonrpc'">>)
     ELSE IF ~Truthy(method)
       THEN Respond(CreateErrorResponse(id, INVALID_REQUEST,
                                        <<"Invalid Request: missing method">>), <<>>)
     ELSE IF client.threw
       THEN OuterCatch(client.msg)
     ELSE CASE method = S("initialize") ->
                 Respond(CreateSuccessResponse(id, InitializeResult), <<>>)
            [] method = S("tools/list") ->
                 Respond(CreateSuccessResponse(id, ToolRegistry), <<>>)
            [] method = S("tools/call") -> ToolsCall(body, client.value)
            [] OTHER ->
                 Respond(CreateErrorResponse(id, METHOD_NOT_FOUND,
                                             <<"Unknown method: ">> \o TemplateStr(method)), <<>>)

\* the handler of a suspended call resumed with a provider outcome, and the
\* rest of the tools/call arm
ResumeCall(c, out) ==
  LET h == IF c.ctx.tool = "bible_content"
             THEN HandleBibleContentResume(c.ctx, out)
             ELSE HandleBibleReferenceResume(c.ctx, out)
  IN IF h.done
       THEN Respond(CreateSuccessResponse(c.id, h.result), <<>>)
       ELSE Suspend(c.id, h, <<>>)

(***************************************************************************)
(* Inputs: deployment configurations, request bodies, provider outcomes    *)
(***************************************************************************)
Envs ==
  { EmptyObj,
    Obj([BIBLE_API_KEY |-> Str(<<>>)]),
    Obj([BIBLE_API_KEY |-> S("key")]),
    Obj([BIBLE_API_KEY |-> S("key"), BIBLE_ID |-> S("niv"), BASE_URL |-> S("http://provider")]) }

Ids == {Undef, Null, Num(1)}
JsonrpcTags == {Undef, S("2.0"), S("1.0"), Str(<<>>)}
OtherMethods == {Undef, Str(<<>>), S("initialize"), S("tools/list"), S("ping")}
ToolNames ==
  {Undef, Num(5), Str(<<>>), Str(<<" ">>), S("bible_content"), S("bible_reference"),
   S("other_tool"), Str(<<" ", "bible_content">>)}
Formats == {Undef, S("concise"), S("detailed")}
Limits == {Undef, Null, Num(-2), Num(0), Num(1), Num(3), Num(200), Num(201), Num(500)}

ArgumentSets ==
  {Undef, Null, EmptyObj, Num(5), Obj([action |-> S("bogus")])}
  \cup {Obj([action |-> S("search"), query |-> q, limit |-> l, response_format |-> f]) :
          q \in {Undef, Str(<<>>), S("love")}, l \in Limits, f \in Formats}
  \cup {Obj([action |-> S("verse"), verse_id |-> v, response_format |-> f]) :
          v \in {Undef, S("GEN.1.1")}, f \in Formats}
  \cup {Obj([action |-> S("passage"), passage_id |-> v, response_format |-> f]) :
          v \in {Undef, S("GEN.1.1-GEN.1.5")}, f \in Formats}
  \cup {Obj([action |-> S("chapter"), book_id |-> b, chapter |-> c, response_format |-> f]) :
          b \in {Undef, S("gen"), Num(7)}, c \in {Undef, Null, Num(1), Num(3)}, f \in Formats}
  \cup {Obj([action |-> S("list_books"), response_format |-> f]) : f \in Formats}
  \cup {Obj([action |-> S("list_chapters"), book_id |-> b, response_format |-> f]) :
          b \in {Undef, S("gen"), S("Gen"), S("EXO"), Num(7)}, f \in Formats}

ParamSets ==
  {Undef, Null}
  \cup {Obj([name |-> n, arguments |-> a]) :
          n \in {S("bible_content"), S("bible_reference")}, a \in ArgumentSets}
  \cup {Obj([name |-> n, arguments |-> a]) :
          n \in ToolNames, a \in {Undef, Obj([action |-> S("list_books")])}}

Bodies ==
  {Null, Num(0), Bool(FALSE), Str(<<>>), Num(5), S("x"), Bool(TRUE), Arr(<<>>)}
  \cup {Obj([jsonrpc |-> j, id |-> i, method |-> m, params |-> p]) :
          j \in JsonrpcTags, i \in Ids, m \in OtherMethods, p \in {Undef, EmptyObj}}
  \cup {Obj([jsonrpc |-> j, id |-> i, method |-> S("tools/call"), params |-> p]) :
          j \in JsonrpcTags, i \in Ids, p \in ParamSets}

Requests == {[json |-> "invalid"]} \cup {[json |-> "ok", body |-> b] : b \in Bodies}

\* provider data
Verse(n) ==
  Obj([id |-> S("v" \o ToString(n)), reference |-> S("John 3:" \o ToString(n)),
       text |-> Str(<<"For", " ", "God", " ">>)])
VerseList(n) == Arr([i \in 1..n |-> Verse(i)])
Chapter(num) ==
  Obj([id |-> S("GEN." \o num), number |-> S(num), reference |-> S("Genesis " \o num)])
Book(b) == Obj([id |-> S(b), name |-> S("Book of " \o b), abbreviation |-> S(b)])
TextLeaf(s) == Obj([type |-> S("text"), text |-> S(s)])
Composite(items) == Obj([items |-> Arr(items)])

MaxVerses == 6

\* how far the long provider texts exceed the concise limit
ExtraLen == 3
\* a text of n one-character chunks (its length is its character count),
\* with a blank at every tenth position
LongText(n) == [i \in 1..n |-> IF i % 10 = 0 THEN " " ELSE "a"]
LongLengths == {MAX_VERSE_LENGTH_CONCISE, MAX_VERSE_LENGTH_CONCISE + ExtraLen}
LongVerse(n) ==
  Obj([id |-> S("PSA.119.1"), reference |-> S("Psalm 119:1"), text |-> Str(LongText(n))])

SearchBodies ==
  {Null, EmptyObj, Obj([data |-> EmptyObj]),
   Obj([data |-> Obj([verses |-> Arr(<<Null>>), total |-> Num(1)])])}
  \cup {Obj([data |-> Obj([verses |-> VerseList(n), total |-> Num(n)])]) : n \in 0..MaxVerses}
  \cup {Obj([data |-> Obj([verses |-> Arr(<<Verse(3), Verse(1), Verse(2)>>), total |-> Num(40)])])}
  \cup {Obj([data |-> Obj([verses |-> Arr(<<Verse(1), LongVerse(n)>>), total |-> Num(2)])]) :
          n \in LongLengths}

VerseBodies ==
  {Null, EmptyObj,
   Obj([data |-> Obj([reference |-> S("Genesis 1:1")])]),
   Obj([data |-> Obj([reference |-> S("Genesis 1:1"),
                      content |-> Str(<<" ", "In", " ", "the", " ", "beginning", "\n">>)])])}
  \cup {Obj([data |-> Obj([reference |-> S("Psalm 119:1"), content |-> Str(LongText(n))])]) :
          n \in LongLengths}

PassageBodies ==
  {Null, EmptyObj,
   Obj([data |-> Obj([reference |-> S("Genesis 1")])]),
   Obj([data |-> Obj([reference |-> S("Genesis 1"),
                      content |-> Str(<<" ", "In", " ", "the", " ", "beginning", "\n">>)])]),
   Obj([data |-> Obj([reference |-> S("Genesis 1"),
                      content |-> Arr(<<Composite(<<TextLeaf("[1]"), TextLeaf(" "),
                                                    Composite(<<TextLeaf("In")>>)>>),
                                        Null,
                                        TextLeaf("\n")>>)])]),
   Obj([data |-> Obj([reference |-> S("Genesis 1"),
                      content |-> Arr(<<Obj([items |-> Num(1)])>>)])])}
  \cup {Obj([data |-> Obj([reference |-> S("Psalm 119:1"), content |-> Str(LongText(n))])]) :
          n \in LongLengths}
  \cup {Obj([data |-> Obj([reference |-> S("Psalm 119:1"),
                           content |-> Arr(<<Obj([type |-> S("text"),
                                                  text |-> Str(LongText(n))])>>)])]) :
          n \in LongLengths}

ChaptersBodies ==
  {Null, EmptyObj, Obj([data |-> Num(1)]), Obj([data |-> Arr(<<Null>>)]),
   Obj([data |-> Arr(<<>>)]),
   Obj([data |-> Arr(<<Chapter("intro"), Chapter("1"), Chapter("2")>>)]),
   Obj([data |-> Arr(<<Chapter("01"), Chapter("10"), Chapter("2")>>)]),
   Obj([data |-> Arr(<<Chapter("1"), Chapter("intro"), Chapter("3"), Chapter("2")>>)])}

BooksBodies ==
  {Null, EmptyObj, Obj([data |-> Num(1)]), Obj([data |-> Arr(<<Null>>)]),
   Obj([data |-> Arr(<<Book("GEN"), Book("EXO")>>)])}

Failures ==
  {[k |-> "reject"], [k |-> "badjson"],
   [k |-> "http", status |-> 404, statusText |-> "Not Found"],
   [k |-> "http", status |-> 500, statusText |-> "Internal Server Error"]}

\* what the provider may answer to the fetch awaited in stage
ProviderOutcomes(stage) ==
  Failures \cup
  {[k |-> "json", body |-> b] :
     b \in CASE stage = "search" -> SearchBodies
            [] stage = "verse" -> VerseBodies
            [] stage \in {"passage", "chapterContent"} -> PassageBodies
            [] stage \in {"chapters", "list_chapters"} -> ChaptersBodies
            [] OTHER -> BooksBodies}

(***************************************************************************)
(* The worker as a state machine: one request is received, its handler     *)
(* may await provider fetches, the response is emitted.                    *)
(***************************************************************************)
NoRequest == [json |-> "none"]
NoCall == [id |-> Undef]
NoResponse == [status |-> 0]
NotFlattened == [pending |-> TRUE]
\* the variables of the other specifications, which the single-request worker
\* leaves as they are
others == <<flatInput, flatOutput, slots, sse>>
\* no SSE connection has been opened
NoConnection == [phase |-> "none"]

Init ==
  /\ env \in Envs
  /\ pc = "idle"
  /\ request = NoRequest
  /\ call = NoCall
  /\ fetches = <<>>
  /\ answers = <<>>
  /\ handlers = <<>>
  /\ response = NoResponse
  /\ emitted = 0
  /\ flatInput = Null
  /\ flatOutput = NotFlattened
  /\ slots = <<>>
  /\ sse = NoConnection

\* a POST to /sse arrives: handleMCP runs to its response or first await
Receive(req) ==
  /\ pc = "idle"
  /\ LET r == HandleMCP(req, env)
     IN /\ request' = req
        /\ handlers' = r.invoked
        /\ answers' = <<>>
        /\ IF r.done
             THEN /\ pc' = "done"
                  /\ response' = r.response
                  /\ emitted' = 1
                  /\ fetches' = <<>>
                  /\ call' = NoCall
             ELSE /\ pc' = "fetch"
                  /\ response' = NoResponse
                  /\ emitted' = 0
                  /\ fetches' = <<r.fetch>>
                  /\ call' = r.call
  /\ UNCHANGED <<env, others>>

\* the awaited provider fetch settles and the handler continues
ProviderRespond(out) ==
  /\ pc = "fetch"
  /\ out \in ProviderOutcomes(call.ctx.stage)
  /\ answers' = Append(answers, [stage |-> call.ctx.stage, out |-> out])
  /\ LET r == ResumeCall(call, out)
     IN IF r.done
          THEN /\ pc' = "done"
               /\ response' = r.response
               /\ emitted' = emitted + 1
               /\ call' = NoCall
               /\ UNCHANGED fetches
          ELSE /\ pc' = "fetch"
               /\ fetches' = Append(fetches, r.fetch)
               /\ call' = r.call
               /\ UNCHANGED <<response, emitted>>
  /\ UNCHANGED <<env, request, handlers, others>>

\* the response has been sent; everything of the request is discarded
Deliver ==
  /\ pc = "done"
  /\ pc' = "idle"
  /\ request' = NoRequest
  /\ call' = NoCall
  /\ fetches' = <<>>
  /\ answers' = <<>>
  /\ handlers' = <<>>
  /\ response' = NoResponse
  /\ emitted' = 0
  /\ UNCHANGED <<env, others>>

AllOutcomes ==
  UNION {ProviderOutcomes(s) : s \in {"search", "verse", "passage", "chapters", "list_books"}}

Next ==
  \/ \E req \in Requests : Receive(req)
  \/ \E out \in AllOutcomes : ProviderRespond(out)
  \/ Deliver

Spec == Init /\ [][Next]_vars

(***************************************************************************)
(* Vocabulary of the properties                                            *)
(***************************************************************************)
Answered == pc = "done"
\* the request body was decoded into an envelope (a JSON object)
Decoded == request.json = "ok" /\ request.body.t = "object"
ReqId == Get(request.body, "id")
ReqTag == Get(request.body, "jsonrpc")
ReqMethod == Get(request.body, "method")
ReqParams == Get(request.body, "params")
ReqName == Get(ReqParams, "name")
ReqArgs == Get(ReqParams, "arguments")
ValidTag == ReqTag \in {Undef, S("2.0")}
KnownTools == {S("bible_content"), S("bible_reference")}

RespId == IF "id" \in DOMAIN response.body THEN response.body.id ELSE Undef
HasResult == "result" \in DOMAIN response.body
HasError == "error" \in DOMAIN response.body
ErrorIs(code) == HasError /\ response.body.error.code = code
\* the response is a success envelope that carries a tool result
HasToolResult == HasResult /\ "content" \in DOMAIN response.body.result
ToolText == response.body.result.content[1].text
ToolIsError ==
  HasToolResult /\ "isError" \in DOMAIN response.body.result
  /\ response.body.result.isError = TRUE
ToolNotError == HasToolResult /\ "isError" \notin DOMAIN response.body.result

LastAnswer == answers[Len(answers)]
\* the provider call failed: network failure or non-success status
ProviderFailed(a) == a.out.k \in {"reject", "http"}
\* the chapter list holds no chapter numbered as the request asks
NoSuchChapter(list) ==
  \A i \in 1..Len(list) :
    list[i].t = "object" /\ Get(list[i], "number") # Str(TemplateStr(Get(ReqArgs, "chapter")))
\* the provider answered successfully, without the requested data
DataAbsent(a) ==
  /\ a.out.k = "json"
  /\ a.out.body.t = "object"
  /\ LET data == Get(a.out.body, "data")
     IN \/ data = Undef
        \/ /\ a.stage = "search"
           /\ Get(data, "verses") \in {Undef, Arr(<<>>)}
        \/ /\ a.stage = "chapters"
           /\ data.t = "array"
           /\ NoSuchChapter(data.a)

\* C1: every request handled by handleMCP gets exactly one response envelope,
\* which carries either a result or an error, never both and never neither;
\* when the envelope was decoded the response id is the request id.
C1_OneEnvelopeMatchingId ==
  /\ emitted = IF Answered THEN 1 ELSE 0
  /\ Answered =>
       /\ HasResult # HasError
       /\ Decoded => RespId = ReqId

\* C2: for every action of both tools, a provider answer without the
\* requested data gives a tool result with a message and no isError flag,
\* a failed provider call gives a tool result with isError set, and both
\* arrive inside a success envelope.
C2_AbsentDataIsNotFailure ==
  (Answered /\ answers # <<>>) =>
     /\ DataAbsent(LastAnswer) => (ToolNotError /\ ToolText # <<>>)
     /\ ProviderFailed(LastAnswer) => ToolIsError

\* the stages whose fetch has been answered without data, or has failed
C2_Witness ==
  /\ Answered
  /\ answers # <<>>
  /\ LastAnswer.stage = "chapters"
  /\ DataAbsent(LastAnswer)
  /\ Get(LastAnswer.out.body, "data") # Undef
  /\ ToolNotError

\* the arguments the handler is given: params.arguments || {}
EffectiveArgs == OrElse(ReqArgs, EmptyObj)
ContentActions == {"search", "verse", "passage", "chapter"}
ReferenceActions == {"list_books", "list_chapters"}
ActionsOf(tool) == IF tool = S("bible_content") THEN ContentActions ELSE ReferenceActions
\* a tools/call that has passed the envelope validation
ValidToolsCall == Answered /\ Decoded /\ ValidTag /\ ReqMethod = S("tools/call")

\* C3: a tools/call naming a tool that is neither bible_content nor
\* bible_reference gets the protocol error -32601 with the tool name in its
\* message, and no handler or fetch is invoked; a call of a known tool with
\* an unrecognized action gets a success envelope whose result has isError
\* set and names the valid actions.
C3_UnknownToolVsUnknownAction ==
  ValidToolsCall =>
    /\ (IsStr(ReqName) /\ Trim(ReqName.s) # <<>> /\ ReqName \notin KnownTools) =>
         /\ ErrorIs(METHOD_NOT_FOUND)
         /\ Contains(response.body.error.message, ReqName.s)
         /\ handlers = <<>>
         /\ fetches = <<>>
    /\ (/\ ReqName \in KnownTools
        /\ \A a \in ActionsOf(ReqName) : Get(EffectiveArgs, "action") # S(a)) =>
         /\ ToolIsError
         /\ \A a \in ActionsOf(ReqName) : Contains(ToolText, <<a>>)

\* C4: a decoded initialize request whose version tag is absent or "2.0"
\* gets a success envelope with the static capability descriptor, whatever
\* its params and whatever the deployment configuration.
C4_InitializeAlwaysSucceeds ==
  (Answered /\ Decoded /\ ValidTag /\ ReqMethod = S("initialize")) =>
    /\ HasResult
    /\ response.body.result = InitializeResult

\* C5: every tools/list call succeeds with the same tool descriptors after
\* any sequence of earlier calls, issues no provider fetch and invokes no
\* handler.
C5_ToolsListStable ==
  (Answered /\ Decoded /\ ValidTag /\ ReqMethod = S("tools/list")) =>
    /\ HasResult
    /\ response.body.result = ToolRegistry
    /\ fetches = <<>>
    /\ handlers = <<>>

\* C6: a request whose body is not valid JSON, or is a falsy value, gets an
\* error envelope with code -32700 and id null.
C6_UndecodableIsParseError ==
  (Answered /\ (request.json = "invalid" \/ ~Truthy(request.body))) =>
    /\ ErrorIs(PARSE_ERROR)
    /\ "id" \in DOMAIN response.body
    /\ response.body.id = Null

C6_Witness ==
  /\ Answered
  /\ request.json = "invalid"
  /\ ErrorIs(PARSE_ERROR)
  /\ RespId = Null

\* C7: a decoded request gets -32600 if its version tag is present and is
\* not "2.0", or if it has no method; a request without a tag is not
\* rejected for that and is answered as the same request tagged "2.0" is;
\* every envelope carries jsonrpc "2.0".
C7_InvalidRequest ==
  (Answered /\ Decoded) =>
    /\ response.body.jsonrpc = S("2.0")
    /\ (ReqTag \notin {Undef, S("2.0")} \/ ReqMethod = Undef) => ErrorIs(INVALID_REQUEST)
    /\ (ReqTag = Undef /\ Truthy(ReqMethod)) => ~ErrorIs(INVALID_REQUEST)
    /\ (ReqTag = Undef /\ answers = <<>>) =>
         response =
           HandleMCP([json |-> "ok",
                      body |-> [t |-> "object",
                                o |-> Spread(request.body.o, [jsonrpc |-> S("2.0")])]],
                     env).response

\* C8: a tools/call without params, or whose params.name is absent, not a
\* string or empty, gets -32602 and invokes no handler; without
\* params.arguments the handler is invoked with an empty argument structure.
C8_InvalidParams ==
  ValidToolsCall =>
    /\ (ReqParams = Undef \/ ~IsStr(ReqName) \/ ReqName = Str(<<>>)) =>
         (ErrorIs(INVALID_PARAMS) /\ handlers = <<>>)
    /\ (ReqName \in KnownTools /\ ReqArgs = Undef) =>
         handlers = <<[tool |-> ReqName.s, args |-> EmptyObj]>>

\* C9: a decoded request with a valid version tag whose method is present
\* and is none of initialize, tools/list, tools/call gets -32601.
C9_UnknownMethod ==
  (/\ Answered /\ Decoded /\ ValidTag
   /\ Truthy(ReqMethod)
   /\ ReqMethod \notin {S("initialize"), S("tools/list"), S("tools/call")}) =>
    ErrorIs(METHOD_NOT_FOUND)

\* C10 as stated: an exception raised inside an action handler is reported
\* as an error envelope with code -32603 that carries its message.
C10_HandlerExceptionIsInternalError ==
  (Answered /\ answers # <<>> /\ LastAnswer.out.k = "http") =>
    /\ ErrorIs(INTERNAL_ERROR)
    /\ Contains(response.body.error.message,
                <<ToString(LastAnswer.out.status), " ", LastAnswer.out.statusText>>)

\* C10 amended: an exception raised inside an action handler is caught by
\* the handler and reported as a tool result with isError set that carries
\* its message, inside a success envelope; -32603 is never emitted, every
\* request is answered and the transport status is always 200.
C10_HandlerExceptionIsToolError ==
  Answered =>
       /\ emitted = 1
       /\ response.status = HTTP_OK
       /\ ~ErrorIs(INTERNAL_ERROR)
       /\ (answers # <<>> /\ LastAnswer.out.k # "json") => ToolIsError
       /\ (answers # <<>> /\ LastAnswer.out.k = "http") =>
            Contains(ToolText,
                     <<ToString(LastAnswer.out.status), " ", LastAnswer.out.statusText>>)

C10_Witness ==
  /\ Answered
  /\ answers # <<>>
  /\ LastAnswer.out.k = "http"
  /\ HasResult
  /\ ToolIsError

(***************************************************************************)
(* Properties of the action handlers                                       *)
(***************************************************************************)
\* a handler has been invoked for the request, with tool and action
Invoked(tool, action) ==
  /\ handlers # <<>>
  /\ handlers[1].tool = <<tool>>
  /\ Get(handlers[1].args, "action") = S(action)
Arg(k) == Get(handlers[1].args, k)
Detailed == Arg("response_format") = S("detailed")

\* the limit the search must send for the requested limit
ExpectedLimit(l) ==
  IF l \in {Undef, Null} THEN 10
  ELSE IF l.n < 1 THEN 1
  ELSE IF l.n > 200 THEN 200
  ELSE l.n

\* C11: for the search action with a query every integer limit is accepted:
\* the search fetch is issued, with limit max(1, min(200, limit)), or 10
\* when limit is absent; limit 0 sends 1 and limit 500 sends 200.
C11_LimitClamped ==
  (Invoked("bible_content", "search") /\ Truthy(Arg("query"))) =>
    /\ Len(fetches) = 1
    /\ fetches[1].params.limit = <<ToString(ExpectedLimit(Arg("limit")))>>
    /\ Arg("limit") = Num(0) => fetches[1].params.limit = <<"1">>
    /\ Arg("limit") = Num(500) => fetches[1].params.limit = <<"200">>

C11_Witness ==
  /\ Invoked("bible_content", "search")
  /\ Arg("limit") = Num(500)
  /\ pc = "fetch"
  /\ fetches[1].params.limit = <<"200">>

\* the reference headings rendered in a tool text, in order
RenderedRefs(text) ==
  LET idx == SelectSeq([i \in 1..Len(text) |-> i],
                       LAMBDA i : i + 2 <= Len(text) /\ text[i] = "**" /\ text[i + 2] = "**")
  IN [j \in 1..Len(idx) |-> text[idx[j] + 1]]

\* the provider answered the search with a list of verses
SearchAnswered ==
  /\ Answered
  /\ answers # <<>>
  /\ LastAnswer.stage = "search"
  /\ LastAnswer.out.k = "json"
  /\ Get(Get(LastAnswer.out.body, "data"), "verses").t = "array"
ProviderVerses == Get(Get(LastAnswer.out.body, "data"), "verses").a
WellFormedVerses ==
  \A i \in 1..Len(ProviderVerses) :
    ProviderVerses[i].t = "object" /\ IsStr(Get(ProviderVerses[i], "text"))

\* C12: of the n verses of a search response, concise mode renders exactly
\* the first min(5, n) in provider order and detailed mode renders all n in
\* provider order.
C12_SearchResultCount ==
  (SearchAnswered /\ WellFormedVerses) =>
    LET n == Len(ProviderVerses)
        k == IF Detailed THEN n ELSE IF n < 5 THEN n ELSE 5
    IN /\ ToolNotError
       /\ RenderedRefs(ToolText) = [j \in 1..k |-> Get(ProviderVerses[j], "reference").s[1]]

C12_Witness ==
  /\ SearchAnswered
  /\ WellFormedVerses
  /\ ~Detailed
  /\ Len(ProviderVerses) = 6
  /\ Len(RenderedRefs(ToolText)) = 5

\* positions of the reference headings of a tool text
HeadingAt(text) ==
  SelectSeq([i \in 1..Len(text) |-> i],
            LAMBDA i : i + 2 <= Len(text) /\ text[i] = "**" /\ text[i + 2] = "**")
\* the text rendered under the j-th heading of a search result (each entry is
\* heading, newline, text, blank line; the response as a whole is trimmed,
\* which removes the blank line of the last entry)
EntryText(text, j) ==
  LET idx == HeadingAt(text)
  IN SubSeq(text, idx[j] + 4, IF j < Len(idx) THEN idx[j + 1] - 3 ELSE Len(text))
\* what is left of an entry text s once the whole response is trimmed
AsEntry(text, j, s) == IF j < Len(HeadingAt(text)) THEN s ELSE TrimEnd(s)
\* the text rendered under the single heading of a verse or passage result
BodyText(text) == SubSeq(text, 5, Len(text))

\* shown is src cut to at most the concise limit, followed by an ellipsis
IsTruncationOf(shown, src) ==
  /\ shown # <<>>
  /\ shown[Len(shown)] = "..."
  /\ Len(shown) - 1 <= MAX_VERSE_LENGTH_CONCISE
  /\ SubSeq(shown, 1, Len(shown) - 1) = SubSeq(src, 1, Len(shown) - 1)
\* what concise mode is claimed to show of a text
ConciseShows(shown, src) ==
  IF Len(src) > MAX_VERSE_LENGTH_CONCISE THEN IsTruncationOf(shown, src) ELSE shown = src

\* the provider answered a verse or passage fetch with data whose content is c
ContentAnswered(stage) ==
  /\ Answered
  /\ answers # <<>>
  /\ LastAnswer.stage = stage
  /\ LastAnswer.out.k = "json"
  /\ Truthy(Get(LastAnswer.out.body, "data"))
ProviderContent == Get(Get(LastAnswer.out.body, "data"), "content")
\* a content list made of text leaves only
FlatLeaves(c) ==
  /\ c.t = "array"
  /\ \A i \in 1..Len(c.a) : c.a[i].t = "object" /\ Get(c.a[i], "type") = S("text")
                             /\ IsStr(Get(c.a[i], "text"))
LeafTexts(c) == Join([i \in 1..Len(c.a) |-> Get(c.a[i], "text").s])

\* search: every rendered entry is the provider text, cut when concise
SearchRendering ==
  (SearchAnswered /\ WellFormedVerses) =>
    \A j \in 1..Len(HeadingAt(ToolText)) :
      LET src == Get(ProviderVerses[j], "text").s
      IN IF Detailed \/ Len(src) <= MAX_VERSE_LENGTH_CONCISE
           THEN EntryText(ToolText, j) = AsEntry(ToolText, j, src)
           ELSE IsTruncationOf(EntryText(ToolText, j), src)
\* detailed verse and passage results show the whole text
DetailedRendering ==
  /\ (ContentAnswered("verse") /\ Detailed /\ IsStr(ProviderContent)) =>
       BodyText(ToolText) = Trim(ProviderContent.s)
  /\ (ContentAnswered("passage") /\ Detailed /\ FlatLeaves(ProviderContent)) =>
       BodyText(ToolText) = Trim(LeafTexts(ProviderContent))

\* C13 as stated: in concise mode, verse text and passage text longer than
\* 100 characters is rendered cut to at most 100 characters followed by an
\* ellipsis, for the verse, passage and search actions; in detailed mode the
\* rendered text is never cut.
C13_ConciseAlwaysTruncated ==
  /\ SearchRendering
  /\ DetailedRendering
  /\ \A stage \in {"verse", "passage"} :
       (ContentAnswered(stage) /\ ~Detailed /\ IsStr(ProviderContent)) =>
         ConciseShows(BodyText(ToolText), Trim(ProviderContent.s))

\* C13 amended: only the search action cuts concise text to at most 100
\* characters plus an ellipsis; concise verse and passage results show the
\* trimmed provider text in full whatever its length, and detailed results
\* are never cut.
C13_OnlySearchTruncates ==
  /\ SearchRendering
  /\ DetailedRendering
  /\ \A stage \in {"verse", "passage"} :
       (ContentAnswered(stage) /\ ~Detailed /\ IsStr(ProviderContent)) =>
         BodyText(ToolText) = Trim(ProviderContent.s)

C13_Witness ==
  /\ SearchAnswered
  /\ WellFormedVerses
  /\ ~Detailed
  /\ Len(HeadingAt(ToolText)) = 2
  /\ Len(Get(ProviderVerses[2], "text").s) > MAX_VERSE_LENGTH_CONCISE
  /\ IsTruncationOf(EntryText(ToolText, 2), Get(ProviderVerses[2], "text").s)
  /\ Len(EntryText(ToolText, 2)) = MAX_VERSE_LENGTH_CONCISE

C13_VerseWitness ==
  /\ ContentAnswered("verse")
  /\ ~Detailed
  /\ IsStr(ProviderContent)
  /\ Len(BodyText(ToolText)) > MAX_VERSE_LENGTH_CONCISE

\* the chapter list of the book was fetched and has no entry numbered as the
\* chapter action asks
ChapterMissing ==
  /\ answers # <<>>
  /\ answers[1].stage = "chapters"
  /\ answers[1].out.k = "json"
  /\ answers[1].out.body.t = "object"
  /\ LET list == OrElse(Get(answers[1].out.body, "data"), Arr(<<>>))
     IN list.t = "array" /\ NoSuchChapter(list.a)

\* C14: when no entry of the fetched chapter list has the requested number
\* (compared as strings), the chapter action answers at once with a
\* non-error message naming the uppercase book code and the requested
\* chapter, and the call makes exactly one provider fetch.
C14_ChapterNotFound ==
  ChapterMissing =>
    /\ Answered
    /\ ToolNotError
    /\ ToolText = <<"Chapter ">> \o TemplateStr(Arg("chapter")) \o <<" not found in book ">>
                  \o ToUpperCase(Arg("book_id").s)
    /\ Len(fetches) = 1
    /\ Len(answers) = 1

C14_Witness ==
  /\ ChapterMissing
  /\ Arg("chapter") = Num(1)
  /\ Get(answers[1].out.body, "data") = Arr(<<Chapter("01"), Chapter("10"), Chapter("2")>>)
  /\ ToolText = <<"Chapter ", "1", " not found in book ", "GEN">>
  /\ Len(fetches) = 1

\* C15: for a search with a non-empty query, when the provider answers
\* successfully with an empty verse list, the result is the non-error
\* "No verses found for query" message, without a "Found ..." heading.
C15_EmptyListIsNoVersesFound ==
  (SearchAnswered /\ ProviderVerses = <<>>) =>
    /\ ToolNotError
    /\ ToolText = <<"No verses found for query: '">> \o Arg("query").s \o <<"'">>
    /\ "Found " \notin {ToolText[i] : i \in 1..Len(ToolText)}

\* handleBibleReference runs list_chapters with a book code
ListChaptersInvoked ==
  /\ Invoked("bible_reference", "list_chapters")
  /\ IsStr(Arg("book_id"))
  /\ Truthy(Arg("book_id"))
\* the book code the provider is to be asked for
UpperBookCode ==
  IF Arg("book_id") \in {S("gen"), S("Gen")} THEN <<"GEN">> ELSE Arg("book_id").s
\* the provider answered the chapter-list fetch with a list of chapter objects
ChapterListAnswered ==
  /\ Answered
  /\ answers # <<>>
  /\ LastAnswer.out.k = "json"
  /\ Get(LastAnswer.out.body, "data").t = "array"
  /\ \A c \in {Get(LastAnswer.out.body, "data").a[i] :
                 i \in 1..Len(Get(LastAnswer.out.body, "data").a)} : c.t = "object"
ProviderChapterNumbers ==
  LET list == Get(LastAnswer.out.body, "data").a
  IN [i \in 1..Len(list) |-> TemplateStr(Get(list[i], "number"))]
\* the numbers of the bulleted lines of a tool text, in order
BulletedNumbers(text) ==
  LET idx == SelectSeq([i \in 1..Len(text) |-> i], LAMBDA i : text[i] = "* Chapter ")
  IN [j \in 1..Len(idx) |-> <<text[idx[j] + 1]>>]

\* C16: list_chapters asks the provider for the chapters of the uppercased
\* book code, and renders one bulleted line for each provider chapter whose
\* number is not "intro", in provider order, and none for an "intro" entry.
C16_ListChapters ==
  ListChaptersInvoked =>
    /\ Len(fetches) = 1
    /\ Contains(fetches[1].url, <<"/books/">> \o UpperBookCode \o <<"/chapters">>)
    /\ ChapterListAnswered =>
         /\ ToolNotError
         /\ BulletedNumbers(ToolText)
              = SelectSeq(ProviderChapterNumbers, LAMBDA n : n # <<"intro">>)
         /\ ~Contains(ToolText, <<"* Chapter ", "intro">>)

C16_Witness ==
  /\ ListChaptersInvoked
  /\ Arg("book_id") = S("gen")
  /\ ChapterListAnswered
  /\ ProviderChapterNumbers = << <<"1">>, <<"intro">>, <<"3">>, <<"2">> >>
  /\ BulletedNumbers(ToolText) = << <<"1">>, <<"3">>, <<"2">> >>
  /\ Contains(fetches[1].url, <<"GEN">>)

\* the action's required argument k is absent from the call
Absent(k) == Get(EffectiveArgs, k) = Undef
\* a call of a known tool, for one of its actions, without a required argument
MissingRequiredArgument ==
  /\ Decoded
  /\ ValidTag
  /\ ReqMethod = S("tools/call")
  /\ LET action == Get(EffectiveArgs, "action")
     IN \/ /\ ReqName = S("bible_content")
           /\ \/ action = S("search") /\ Absent("query")
              \/ action = S("verse") /\ Absent("verse_id")
              \/ action = S("passage") /\ Absent("passage_id")
              \/ action = S("chapter") /\ (Absent("book_id") \/ Absent("chapter"))
        \/ /\ ReqName = S("bible_reference")
           /\ action = S("list_chapters") /\ Absent("book_id")

\* C17: a call that misses a required argument of its action is answered
\* with a tool result that has isError set, inside a success envelope, and no
\* provider fetch is issued in that call.
C17_MissingArgumentIsToolError ==
  MissingRequiredArgument =>
    /\ Answered
    /\ HasResult
    /\ ToolIsError
    /\ fetches = <<>>

(***************************************************************************)
(* extractTextFromContent on its own: it is given one list of content      *)
(* nodes and returns their text.                                           *)
(***************************************************************************)
\* how deep the content trees nest
TreeDepth == 2
\* the nodes that hold no other node: text leaves and a node of no shape
BaseNodes == {TextLeaf("a"), TextLeaf(" "), Null}
\* the content nodes of depth at most d: a composite or a raw array pairs a
\* base node with a shallower node, in either order
RECURSIVE Nodes(_)
Nodes(d) ==
  IF d = 0 THEN BaseNodes
  ELSE LET sub == Nodes(d - 1)
       IN BaseNodes
          \cup {Composite(<<l, n>>) : l \in BaseNodes, n \in sub}
          \cup {Composite(<<n, l>>) : l \in BaseNodes, n \in sub}
          \cup {Arr(<<l, n>>) : l \in BaseNodes, n \in sub}
          \cup {Arr(<<n, l>>) : l \in BaseNodes, n \in sub}
\* nodes of neither shape: no type and no items, another type, a leaf
\* without text, a number, and nodes whose items member is not a sequence
OddNodes ==
  {EmptyObj, Obj([type |-> S("bold")]), Obj([type |-> S("text")]), Num(5),
   Obj([items |-> Num(1)]), Obj([items |-> S("ab")])}
\* the lists of content nodes handed to extractTextFromContent
ContentLists ==
  {Arr(<<>>)}
  \cup {Arr(<<o>>) : o \in OddNodes}
  \cup {Arr(<<l, o>>) : l \in BaseNodes, o \in OddNodes}
  \cup {Arr(<<Composite(<<o, l>>), l>>) : l \in BaseNodes, o \in OddNodes}
  \cup {Arr(<<n>>) : n \in Nodes(TreeDepth)}
  \cup {Arr(<<n, l>>) : n \in Nodes(TreeDepth), l \in BaseNodes}
  \cup {Arr(<<l, n>>) : n \in Nodes(TreeDepth), l \in BaseNodes}

FlatInit ==
  /\ flatInput \in ContentLists
  /\ flatOutput = NotFlattened
  /\ env = EmptyObj
  /\ pc = "idle"
  /\ request = NoRequest
  /\ call = NoCall
  /\ fetches = <<>>
  /\ answers = <<>>
  /\ handlers = <<>>
  /\ response = NoResponse
  /\ emitted = 0
  /\ slots = <<>>
  /\ sse = NoConnection

\* extractTextFromContent(contentItems) is called and returns
Flatten ==
  /\ flatOutput = NotFlattened
  /\ flatOutput' = ExtractTextFromContent(flatInput)
  /\ UNCHANGED <<env, pc, request, call, fetches, answers, handlers, response, emitted,
                 flatInput, slots, sse>>

FlatNext == Flatten

FlattenSpec == FlatInit /\ [][FlatNext]_vars

Flattened == flatOutput # NotFlattened
IsLeaf(n) == n.t = "object" /\ Get(n, "type") = S("text") /\ IsStr(Get(n, "text"))
IsComposite(n) == n.t = "object" /\ Get(n, "type") = Undef /\ Get(n, "items").t = "array"
\* a content-node tree: text leaves and composites of content-node trees
RECURSIVE IsContentTree(_)
IsContentTree(n) ==
  \/ IsLeaf(n)
  \/ /\ IsComposite(n)
     /\ \A i \in 1..Len(Get(n, "items").a) : IsContentTree(Get(n, "items").a[i])
IsContentForest(list) == \A i \in 1..Len(list.a) : IsContentTree(list.a[i])
\* the leaves of a content-node tree, left to right
RECURSIVE LeavesOf(_)
LeavesOf(n) ==
  IF IsLeaf(n) THEN <<n>>
  ELSE LET kids == Get(n, "items").a
       IN Join([i \in 1..Len(kids) |-> LeavesOf(kids[i])])
LeavesOfList(list) == Join([i \in 1..Len(list.a) |-> LeavesOf(list.a[i])])
\* the subtrees of a node, the node included
RECURSIVE Subtrees(_)
Subtrees(n) ==
  {n} \cup (IF IsComposite(n)
              THEN UNION {Subtrees(Get(n, "items").a[i]) : i \in 1..Len(Get(n, "items").a)}
              ELSE {})
SubtreesOfList(list) == UNION {Subtrees(list.a[i]) : i \in 1..Len(list.a)}
\* extractTextFromContent applied to the nodes ns
FlattenList(ns) == ExtractTextFromContent(Arr(ns)).value
\* the inner extractText applied to the node n
FlattenNode(n) == ExtractText(n).value

\* C19 as stated, flatten being extractTextFromContent: for every content
\* tree, flatten(composite) is the concatenation of flatten(child) over the
\* composite's items in order, flatten([leaf]) is leaf.text, and flattening
\* a nested tree equals flattening its left-to-right sequence of leaves.
C19_FlattenLaws ==
  (Flattened /\ IsContentForest(flatInput)) =>
    /\ \A n \in SubtreesOfList(flatInput) :
         /\ IsComposite(n) =>
              FlattenList(<<n>>)
                = Join([i \in 1..Len(Get(n, "items").a) |->
                          FlattenList(<<Get(n, "items").a[i]>>)])
         /\ IsLeaf(n) => FlattenList(<<n>>) = Get(n, "text").s
    /\ ~flatOutput.threw
    /\ flatOutput.value = FlattenList(LeavesOfList(flatInput))

\* C19 amended: the laws hold for the inner extractText: for every content
\* tree extractText(composite) is the concatenation of extractText(child)
\* over the composite's items in order and extractText(leaf) is leaf.text;
\* extractTextFromContent returns the concatenation of the texts of the
\* tree's leaves from left to right with surrounding whitespace trimmed off
\* once, which is also what it returns for the sequence of those leaves.
C19_ExtractTextLaws ==
  (Flattened /\ IsContentForest(flatInput)) =>
    /\ \A n \in SubtreesOfList(flatInput) :
         /\ IsComposite(n) =>
              FlattenNode(n)
                = Join([i \in 1..Len(Get(n, "items").a) |->
                          FlattenNode(Get(n, "items").a[i])])
         /\ IsLeaf(n) => FlattenNode(n) = Get(n, "text").s
    /\ ~flatOutput.threw
    /\ LET leaves == LeavesOfList(flatInput)
       IN /\ flatOutput.value = Trim(Join([i \in 1..Len(leaves) |-> Get(leaves[i], "text").s]))
          /\ flatOutput.value = FlattenList(leaves)

C19_Witness ==
  /\ Flattened
  /\ flatInput = Arr(<<Composite(<<TextLeaf(" "),
                                   Composite(<<TextLeaf("a"), TextLeaf(" ")>>)>>),
                       TextLeaf("a")>>)
  /\ flatOutput = Ok(<<"a", " ", "a">>)

\* what a node is claimed to contribute: a leaf its text, a composite and a
\* raw array the contributions of their elements in order, anything else
\* nothing
RECURSIVE Contribution(_)
Contribution(n) ==
  IF n.t = "array"
    THEN Join([i \in 1..Len(n.a) |-> Contribution(n.a[i])])
  ELSE IF IsLeaf(n) THEN Get(n, "text").s
  ELSE IF IsComposite(n)
    THEN Join([i \in 1..Len(Get(n, "items").a) |-> Contribution(Get(n, "items").a[i])])
  ELSE <<>>
\* the list holds a raw array node, at some depth
RECURSIVE HasArrayNode(_)
HasArrayNode(n) ==
  \/ n.t = "array"
  \/ /\ IsComposite(n)
     /\ \E i \in 1..Len(Get(n, "items").a) : HasArrayNode(Get(n, "items").a[i])

\* C20: a node of the flattener's input that is itself a raw array of nodes
\* contributes the concatenation of its elements' flattened text in order,
\* at any nesting depth.
C20_ArrayNodeContributes ==
  (Flattened /\ \E i \in 1..Len(flatInput.a) : HasArrayNode(flatInput.a[i])) =>
    /\ ~flatOutput.threw
    /\ flatOutput.value = Trim(Contribution(flatInput))

(***************************************************************************)
(* Several requests in flight: the runtime interleaves the handling of     *)
(* independent requests at the points where a handler awaits a fetch.      *)
(***************************************************************************)
\* how many requests can be in flight at once
NumSlots == 2
Slots == 1..NumSlots

ToolsCallBody(id, name, arguments) ==
  Obj([jsonrpc |-> S("2.0"), id |-> id, method |-> S("tools/call"),
       params |-> Obj([name |-> S(name), arguments |-> arguments])])
\* the requests that are handled interleaved
ConcRequests ==
  {[json |-> "ok", body |-> b] :
     b \in {Obj([jsonrpc |-> S("2.0"), id |-> Num(1), method |-> S("initialize")]),
            ToolsCallBody(Num(2), "bible_content",
                          Obj([action |-> S("search"), query |-> S("love")])),
            ToolsCallBody(Num(3), "bible_content",
                          Obj([action |-> S("chapter"), book_id |-> S("gen"),
                               chapter |-> Num(1)])),
            ToolsCallBody(Null, "bible_reference", Obj([action |-> S("list_books")]))}}
ConcEnvs ==
  {Obj([BIBLE_API_KEY |-> S("key")]),
   Obj([BIBLE_API_KEY |-> S("key"), BIBLE_ID |-> S("niv"), BASE_URL |-> S("http://provider")])}
\* what the provider may answer to a fetch awaited in stage
ConcOutcomes(stage) ==
  {[k |-> "reject"]} \cup
  {[k |-> "json", body |-> b] :
     b \in CASE stage = "search" ->
                 {Obj([data |-> Obj([verses |-> VerseList(2), total |-> Num(2)])])}
            [] stage = "chapters" ->
                 {Obj([data |-> Arr(<<Chapter("intro"), Chapter("1"), Chapter("2")>>)])}
            [] stage = "chapterContent" ->
                 {Obj([data |-> Obj([reference |-> S("Genesis 1"),
                                     content |-> Str(<<"In", " ", "the", " ", "beginning">>)])])}
            [] OTHER -> {Obj([data |-> Arr(<<Book("GEN"), Book("EXO")>>)])}}
AllConcOutcomes ==
  UNION {ConcOutcomes(s) : s \in {"search", "chapters", "chapterContent", "list_books"}}

IdleSlot ==
  [pc |-> "idle", request |-> NoRequest, call |-> NoCall, answers |-> <<>>,
   response |-> NoResponse, interleaved |-> FALSE]
\* the steps of slot s happen while the requests of the other slots that
\* await a fetch stay suspended
Interleave(sl, s) ==
  [t \in Slots |-> IF t # s /\ sl[t].pc = "fetch"
                     THEN [sl[t] EXCEPT !.interleaved = TRUE] ELSE sl[t]]

ConcInit ==
  /\ env \in ConcEnvs
  /\ slots = [s \in Slots |-> IdleSlot]
  /\ pc = "idle"
  /\ request = NoRequest
  /\ call = NoCall
  /\ fetches = <<>>
  /\ answers = <<>>
  /\ handlers = <<>>
  /\ response = NoResponse
  /\ emitted = 0
  /\ flatInput = Null
  /\ flatOutput = NotFlattened
  /\ sse = NoConnection

notSlots ==
  <<env, pc, request, call, fetches, answers, handlers, response, emitted,
    flatInput, flatOutput, sse>>

\* what a slot becomes when its handleMCP invocation has reached r
Reached(slot, r) ==
  IF r.done
    THEN [slot EXCEPT !.pc = "done", !.response = r.response, !.call = NoCall]
    ELSE [slot EXCEPT !.pc = "fetch", !.call = r.call]

\* a request arrives and handleMCP runs to its response or first await
CReceive(s, req) ==
  /\ slots[s].pc = "idle"
  /\ slots' = [Interleave(slots, s) EXCEPT
                 ![s] = Reached([IdleSlot EXCEPT !.request = req], HandleMCP(req, env))]
  /\ UNCHANGED notSlots

\* a context kept in one place for all requests: a continuation resumes with
\* the context of the lowest slot that awaits a fetch
ContextOfShared(s) ==
  slots[CHOOSE t \in Slots :
          slots[t].pc = "fetch" /\ \A u \in Slots : slots[u].pc = "fetch" => t <= u].call

\* the handler context that the continuation of slot s resumes with: the
\* locals of its own invocation
ContextOf(s) == slots[s].call

\* the fetch awaited by slot s settles and its handler continues
CProviderRespond(s, out) ==
  /\ slots[s].pc = "fetch"
  /\ out \in ConcOutcomes(slots[s].call.ctx.stage)
  /\ slots' = [Interleave(slots, s) EXCEPT
                 ![s] = Reached([slots[s] EXCEPT
                                   !.answers = Append(@, [stage |-> slots[s].call.ctx.stage,
                                                          out |-> out])],
                                ResumeCall(ContextOf(s), out))]
  /\ UNCHANGED notSlots

\* the response of slot s has been sent and its request is discarded
CDeliver(s) ==
  /\ slots[s].pc = "done"
  /\ slots' = [Interleave(slots, s) EXCEPT ![s] = IdleSlot]
  /\ UNCHANGED notSlots

ConcNext ==
  \/ \E s \in Slots, req \in ConcRequests : CReceive(s, req)
  \/ \E s \in Slots, out \in AllConcOutcomes : CProviderRespond(s, out)
  \/ \E s \in Slots : CDeliver(s)

ConcSpec == ConcInit /\ [][ConcNext]_vars

\* handleMCP run on req alone, its fetches answered by outs in order
RECURSIVE ResumeAll(_, _)
ResumeAll(r, outs) ==
  IF r.done \/ outs = <<>> THEN r
  ELSE ResumeAll(ResumeCall(r.call, Head(outs).out), Tail(outs))
HandledAlone(req, e, outs) == ResumeAll(HandleMCP(req, e), outs)

RECURSIVE HasBadItems(_)
HasBadItems(n) ==
  /\ n.t \in {"object", "array"}
  /\ \/ n.t = "object" /\ Get(n, "type") # S("text") /\ Truthy(Get(n, "items"))
          /\ Get(n, "items").t # "array"
     \/ LET kids == IF n.t = "array" THEN n.a
                    ELSE IF Get(n, "items").t = "array" THEN Get(n, "items").a ELSE <<>>
        IN \E i \in 1..Len(kids) : HasBadItems(kids[i])
NoArrayNode(list) == \A i \in 1..Len(list.a) : ~HasArrayNode(list.a[i])

\* C21: extractTextFromContent returns a string without raising for every
\* finite list of nodes, null entries, nodes of neither shape and nodes whose
\* items is not a sequence included, and a node that is neither a leaf nor a
\* composite contributes the empty string.
C21_FlattenerIsTotal ==
  Flattened =>
    /\ ~flatOutput.threw
    /\ NoArrayNode(flatInput) => flatOutput.value = Trim(Contribution(flatInput))

\* the fetch did not complete successfully: the network failed, the status
\* was not a success, or the body was not JSON
FetchFailed(a) == a.out.k # "json"
\* the first entry of the chapter list numbered as the chapter action asks
MatchedChapter(list) ==
  LET wanted == Str(TemplateStr(Arg("chapter")))
      i == CHOOSE i \in 1..Len(list) :
             /\ Get(list[i], "number") = wanted
             /\ \A j \in 1..(i - 1) : Get(list[j], "number") # wanted
  IN list[i]

\* C22: within one tools/call the fetches are sequential and never retried:
\* a fetch is issued only when all earlier ones are answered, every action
\* issues at most one fetch except chapter, whose second fetch follows a
\* successful chapter-list fetch and asks for the passage with the matched
\* chapter's id; once a fetch has failed no further fetch is issued and the
\* call ends with the error result.
C22_SequentialFetchesNoRetry ==
  /\ Len(fetches) = Len(answers) + (IF pc = "fetch" THEN 1 ELSE 0)
  /\ Len(fetches) <= 2
  /\ Len(fetches) = 2 =>
       /\ Invoked("bible_content", "chapter")
       /\ answers[1].stage = "chapters"
       /\ ~FetchFailed(answers[1])
       /\ Contains(fetches[1].url, <<"/books/", "GEN", "/chapters">>)
       /\ LET ch == MatchedChapter(Get(answers[1].out.body, "data").a)
          IN fetches[2].url
               = SubSeq(fetches[1].url, 1, Len(fetches[1].url) - 3) \o <<"/passages/">>
                 \o Get(ch, "id").s
  /\ \A i \in 1..Len(answers) :
       FetchFailed(answers[i]) =>
         /\ i = Len(answers)
         /\ Len(fetches) = i
         /\ Answered
         /\ ToolIsError

C22_Witness ==
  /\ Len(fetches) = 2
  /\ Len(answers) = 2
  /\ FetchFailed(answers[2])
  /\ Contains(fetches[2].url, <<"/passages/", "GEN.1">>)
  /\ ToolIsError

\* the passage rule: structured content with verse numbers when detailed,
\* flat text without verse numbers when concise
FidelityRule(p) ==
  IF Detailed
    THEN p.content_type = <<"json">> /\ p.include_verse_numbers = <<"true">>
    ELSE p.content_type = <<"text">> /\ p.include_verse_numbers = <<"false">>

\* C23: the verse fetch asks for verse numbers iff response_format is
\* detailed; the passage fetch and the chapter-content fetch ask for json
\* content with verse numbers when detailed and for text content without
\* verse numbers when concise, both by the same rule.
C23_FetchParamsFollowFidelity ==
  /\ (Invoked("bible_content", "verse") /\ fetches # <<>>) =>
       (fetches[1].params.include_verse_numbers = <<"true">>) = Detailed
  /\ (Invoked("bible_content", "verse") /\ fetches # <<>> /\ ~Detailed) =>
       fetches[1].params.include_verse_numbers = <<"false">>
  /\ (Invoked("bible_content", "passage") /\ fetches # <<>>) =>
       FidelityRule(fetches[1].params)
  /\ (Invoked("bible_content", "chapter") /\ Len(fetches) = 2) =>
       FidelityRule(fetches[2].params)

C23_Witness ==
  /\ Invoked("bible_content", "chapter")
  /\ Len(fetches) = 2
  /\ ~Detailed
  /\ fetches[2].params.content_type = <<"text">>
  /\ Contains(fetches[2].url, <<"/passages/">>)

C23_DetailedWitness ==
  /\ Invoked("bible_content", "passage")
  /\ Detailed
  /\ fetches # <<>>
  /\ fetches[1].params.content_type = <<"json">>
  /\ fetches[1].params.include_verse_numbers = <<"true">>

\* the registry entry of the tool whose handler was invoked
InvokedTool ==
  CHOOSE t \in {ToolRegistry.tools[i] : i \in 1..Len(ToolRegistry.tools)} :
    <<t.name>> = handlers[1].tool
\* the action argument is one of the values the registry lists for the tool
ActionInEnum ==
  /\ IsStr(Arg("action"))
  /\ \E i \in 1..Len(InvokedTool.inputSchema.properties.action.enum) :
       Arg("action") = S(InvokedTool.inputSchema.properties.action.enum[i])
\* the arguments the registry declares as required for action a of tool t:
\* those named after "(requires " in the clause of a in t's description
DeclaredRequired(t, a) ==
  LET d == t.description
      p == CHOOSE i \in 1..Len(d) : d[i] = a /\ \A j \in 1..(i - 1) : d[j] # a
      stops == {i \in (p + 1)..Len(d) : d[i] = "; "} \cup {Len(d)}
      e == CHOOSE i \in stops : \A j \in stops : i <= j
  IN {d[i] : i \in {i \in (p + 1)..e :
                      /\ d[i] \in DOMAIN t.inputSchema.properties
                      /\ \E j \in (p + 1)..(i - 1) : d[j] = "(requires "}}
\* the handler answered that the action is none of its own
UnknownActionError ==
  /\ Answered
  /\ ToolIsError
  /\ ToolText[1] = "Unknown action: "
  /\ fetches = <<>>
\* the handler answered that an argument its arm requires is missing
RequiresError ==
  /\ Answered
  /\ ToolIsError
  /\ fetches = <<>>
  /\ ToolText \in {<<"search action requires query">>,
                   <<"verse action requires verse_id">>,
                   <<"passage action requires passage_id">>,
                   <<"chapter action requires book_id and chapter">>,
                   <<"list_chapters action requires book_id">>}
\* argument k is given with a value of the type the registry declares
Given(k) ==
  LET type == InvokedTool.inputSchema.properties[k].type
  IN IF type = "string" THEN IsStr(Arg(k)) /\ Arg(k) # Str(<<>>)
     ELSE Arg(k).t = "number"

\* C24: for each tool the values of the registry's action enum are exactly
\* the actions its handler has an arm for, every other value getting the
\* unknown-action error, and each arm requires exactly the arguments that
\* the registry declares for its action.
C24_RegistryAndHandlersInLockstep ==
  handlers # <<>> =>
    /\ ActionInEnum = ~UnknownActionError
    /\ ~ActionInEnum => Answered
    /\ ActionInEnum =>
         LET required == DeclaredRequired(InvokedTool, Arg("action").s[1])
         IN /\ (\E k \in required : Arg(k) = Undef) => RequiresError
            /\ (\A k \in required : Given(k)) => ~RequiresError

C24_Witness ==
  /\ Invoked("bible_content", "chapter")
  /\ DeclaredRequired(InvokedTool, "chapter") = {"book_id", "chapter"}
  /\ Arg("book_id") = S("gen")
  /\ Arg("chapter") = Undef
  /\ RequiresError

C24_UnknownWitness ==
  /\ handlers # <<>>
  /\ handlers[1].tool = <<"bible_content">>
  /\ Arg("action") = S("list_books")
  /\ UnknownActionError

\* a tools/call that passed the envelope validation and names one of the two
\* tools
KnownToolCall ==
  /\ Decoded
  /\ ValidTag
  /\ ReqMethod = S("tools/call")
  /\ ReqName \in KnownTools

\* C25: every tools/call that passes the envelope validation and names
\* bible_content or bible_reference ends in a success envelope carrying a
\* tool result, whatever its arguments and whatever the provider does, and
\* error -32603 is never emitted for it.
C25_KnownToolCallNeverInternalError ==
  (KnownToolCall /\ Answered) =>
    /\ HasResult
    /\ HasToolResult
    /\ ~ErrorIs(INTERNAL_ERROR)

(***************************************************************************)
(* The SSE connection of handleSSE: a keep-alive timer writes a comment    *)
(* to the stream's writer until cleanup clears it.                         *)
(***************************************************************************)
\* how many times the keep-alive timer fires on one connection
MaxTicks == 3

\* closeWriter(): writer.close() closes an open writer and returns a rejected
\* promise for any other; the rejection is swallowed by .catch(() => {})
CloseWriter(writer) ==
  [writer |-> IF writer = "open" THEN "closing" ELSE writer, raised |-> FALSE]

\* a cleanup that closes the writer and leaves the timer as it is
CleanupKeepsTimer(c) ==
  LET closed == CloseWriter(c.writer)
  IN [c EXCEPT !.writer = closed.writer,
               !.raised = @ \/ closed.raised,
               !.cleanups = @ + 1]

\* cleanup(): clear the timer if it is set, set it to null, close the writer
Cleanup(c) ==
  LET closed == CloseWriter(c.writer)
  IN [c EXCEPT !.keepAlive = "null",
               !.writer = closed.writer,
               !.raised = @ \/ closed.raised,
               !.cleanups = @ + 1]

SseInit ==
  /\ sse = NoConnection
  /\ env \in Envs
  /\ pc = "idle"
  /\ request = NoRequest
  /\ call = NoCall
  /\ fetches = <<>>
  /\ answers = <<>>
  /\ handlers = <<>>
  /\ response = NoResponse
  /\ emitted = 0
  /\ flatInput = Null
  /\ flatOutput = NotFlattened
  /\ slots = <<>>

notSse ==
  <<env, pc, request, call, fetches, answers, handlers, response, emitted,
    flatInput, flatOutput, slots>>

\* GET /sse: handleConnection arms the timer and registers the abort listener
\* (when the request has a signal) and the writer.closed callbacks
HandleSSE(hasSignal) ==
  /\ sse = NoConnection
  /\ sse' = [phase |-> "open", keepAlive |-> "armed", writer |-> "open",
             hasSignal |-> hasSignal, aborted |-> FALSE, closedSeen |-> FALSE,
             ticks |-> 0, pending |-> 0, cleanups |-> 0, raised |-> FALSE]
  /\ UNCHANGED notSse

\* the interval fires: the callback calls writer.write and awaits it
KeepAliveTick ==
  /\ sse.phase = "open"
  /\ sse.keepAlive = "armed"
  /\ sse.ticks < MaxTicks
  /\ sse' = [sse EXCEPT !.ticks = @ + 1, !.pending = @ + 1]
  /\ UNCHANGED notSse

\* an awaited keep-alive write settles; a rejected one is caught and runs
\* cleanup
WriteSettles(ok) ==
  /\ sse.phase = "open"
  /\ sse.pending > 0
  /\ ok => sse.writer = "open"
  /\ sse' = IF ok
              THEN [sse EXCEPT !.pending = @ - 1]
              ELSE Cleanup([sse EXCEPT !.pending = @ - 1,
                                       !.writer = IF @ = "open" THEN "errored" ELSE @])
  /\ UNCHANGED notSse

\* the request's signal fires abort: the listener runs cleanup
RequestAbort ==
  /\ sse.phase = "open"
  /\ sse.hasSignal
  /\ ~sse.aborted
  /\ sse' = Cleanup([sse EXCEPT !.aborted = TRUE])
  /\ UNCHANGED notSse

\* the stream fails under the writer (the client has gone away), or a close
\* that was asked for completes
WriterSettles(to) ==
  /\ sse.phase = "open"
  /\ \/ to = "errored" /\ sse.writer \in {"open", "closing"}
     \/ to = "closed" /\ sse.writer = "closing"
  /\ sse' = [sse EXCEPT !.writer = to]
  /\ UNCHANGED notSse

\* writer.closed has settled: its then / catch callback runs cleanup
WriterClosed ==
  /\ sse.phase = "open"
  /\ sse.writer \in {"closed", "errored"}
  /\ ~sse.closedSeen
  /\ sse' = Cleanup([sse EXCEPT !.closedSeen = TRUE])
  /\ UNCHANGED notSse

SseNext ==
  \/ \E hasSignal \in BOOLEAN : HandleSSE(hasSignal)
  \/ KeepAliveTick
  \/ \E ok \in BOOLEAN : WriteSettles(ok)
  \/ RequestAbort
  \/ \E to \in {"closed", "errored"} : WriterSettles(to)
  \/ WriterClosed

SseSpec == SseInit /\ [][SseNext]_vars

\* one of the three events has happened on the connection
CleanupEvent == sse.phase = "open" /\ sse.cleanups > 0

\* C26: once request abort, writer closed or errored, or a failed keep-alive
\* write has happened, the keep-alive timer is cleared and null, and it stays
\* so: no further keep-alive write is scheduled, and cleanup running again,
\* for whichever of the events and in whatever order, raises nothing and
\* does not arm the timer again.
C26_CleanupClearsTimer ==
  /\ []((sse.phase = "open" /\ (sse.aborted \/ sse.closedSeen)) => CleanupEvent)
  /\ [][CleanupEvent =>
          /\ sse.keepAlive = "null"
          /\ sse'.keepAlive = "null"
          /\ sse'.ticks = sse.ticks
          /\ sse'.pending <= sse.pending
          /\ ~sse'.raised
          /\ sse'.cleanups >= sse.cleanups]_vars

C26_Witness ==
  /\ sse.phase = "open"
  /\ sse.aborted
  /\ sse.closedSeen
  /\ sse.cleanups >= 3
  /\ sse.keepAlive = "null"
  /\ sse.ticks > 0

====
